---- MODULE Spec2Model ----
(***************************************************************************)
(* Model of src/object/skip_list.rs: the skip list of (score, value)       *)
(* pairs.  The heap of Rc<RefCell<SkipListNode>> cells is a function from  *)
(* node identities to node records; identity 0 is the header, and a node   *)
(* created by the k-th insert has identity k.  Level arrays keep the       *)
(* source's 0-based indices.                                               *)
(***************************************************************************)
EXTENDS Integers, Sequences, FiniteSets, TLC

\* ------------------------------------------------------------------ bounds
MaxLen == 3
MaxScore == 2
MaxLow == 2

\* --------------------------------------------------------------- constants
SKIP_LIST_MAX_LEVEL == 32

\* Option::None of a node reference, and the identity of the header cell.
None == 0 - 1
header == 0

\* Option<RobjPtr>: the empty sequence is None, <<s>> is Some(s).
NoObj == << >>
Some(s) == << s >>

\* f64 scores: the ordinary values 1.0 .. MaxScore.0 and NaN.  Every
\* comparison with NaN is false.
NaN == MaxScore + 1
Scores == (1..MaxScore) \cup {NaN}
IsNaN(a) == a = NaN
FGt(a, b) == ~IsNaN(a) /\ ~IsNaN(b) /\ a > b
FEq(a, b) == ~IsNaN(a) /\ ~IsNaN(b) /\ a = b
FLe(a, b) == ~IsNaN(a) /\ ~IsNaN(b) /\ a <= b

\* Strings are byte sequences: "a", "ab", "b".
Values == { <<97>>, <<97, 98>>, <<98>> }

\* str's Ord: lexicographic on bytes, a proper prefix is smaller.
RECURSIVE StrGe(_, _)
StrGe(a, b) ==
  IF b = << >> THEN TRUE
  ELSE IF a = << >> THEN FALSE
  ELSE IF Head(a) > Head(b) THEN TRUE
  ELSE IF Head(a) < Head(b) THEN FALSE
  ELSE StrGe(Tail(a), Tail(b))

StrLe(a, b) == StrGe(b, a)

\* ---------------------------------------------------------------- the nodes
SkipListLevel(f, s) == [forward |-> f, span |-> s]

\* A constructor that starts every span at 1.
SkipListNode_new_span1(level, score, obj) ==
  [obj |-> obj, score |-> score, backward |-> None,
   level |-> [i \in 0..(level - 1) |-> SkipListLevel(None, 1)]]

SkipListNode_new(level, score, obj) ==
  [obj |-> obj, score |-> score, backward |-> None,
   level |-> [i \in 0..(level - 1) |-> SkipListLevel(None, 0)]]

\* The list and its cells; panicked is set when an insert panics (an index out
\* of bounds, an unwrap of None, an unsigned subtraction below zero).
VARIABLES heap, tail, length, level, panicked

\* A call of random_level on its own: the stream of draws it reads, its
\* result, and whether it has returned.
VARIABLES rlDraws, rlLevel, rlPc

listVars == <<heap, tail, length, level, panicked>>
rlVars == <<rlDraws, rlLevel, rlPc>>
vars == <<heap, tail, length, level, panicked, rlDraws, rlLevel, rlPc>>

\* SkipList::new
New ==
  [heap |-> [n \in {header} |-> SkipListNode_new(SKIP_LIST_MAX_LEVEL, 0, NoObj)],
   tail |-> None, length |-> 0, level |-> 1]

\* ----------------------------------------------------------- random_level
\* One draw succeeds when ((num & 0xFFFF) as f64) < 0.25 * 65535.0, that is
\* when 4 * (num mod 65536) < 65535.
Mask16(num) == num % 65536
Coin(num) == 4 * Mask16(num) < 65535

\* The while loop over the stream of draws; it ends at the first failure.
RECURSIVE RandomLoop(_, _)
RandomLoop(lvl, draws) ==
  IF Coin(Head(draws)) THEN RandomLoop(lvl + 1, Tail(draws)) ELSE lvl

\* random_level without the cap.
random_level_uncapped(draws) == RandomLoop(1, draws)

random_level(draws) ==
  LET lvl == RandomLoop(1, draws)
  IN IF lvl < SKIP_LIST_MAX_LEVEL THEN lvl ELSE SKIP_LIST_MAX_LEVEL

\* Draw streams: k draws of s and then one draw of f.
Draws(k, s, f) == [j \in 1..(k + 1) |-> IF j <= k THEN s ELSE f]

\* Draws below and above the threshold 16383.75, some with bits above the
\* low 16.
LowNums == {0, 16383, 65536}
HighNums == {16384, 65535, 81920}

\* The streams insert draws from: short runs of successes, and runs that
\* reach and pass the cap.
SuccessCounts ==
  (0..MaxLow) \cup {SKIP_LIST_MAX_LEVEL - 1, SKIP_LIST_MAX_LEVEL}
InsertDraws == { Draws(k, 16383, 16384) : k \in SuccessCounts }

\* The streams of a call of random_level on its own.
RECURSIVE Streams(_)
Streams(k) ==
  IF k = 0 THEN { <<f>> : f \in HighNums }
  ELSE { <<n>> \o t : n \in LowNums, t \in Streams(k - 1) }
RLDraws ==
  UNION { Streams(k) : k \in 0..MaxLow }
  \cup { Draws(k, n, f) : k \in (SKIP_LIST_MAX_LEVEL - 2)..(SKIP_LIST_MAX_LEVEL + 1),
                          n \in LowNums, f \in HighNums }

\* ------------------------------------------------------------------ insert
\* The break condition of the inner loop, on the next node's key.
KeyGe(next_score, next_obj, score, obj) ==
  FGt(next_score, score) \/ (FEq(next_score, score) /\ StrGe(next_obj, obj))

\* The inner loop at level i, from node x with accumulated rank r.
RECURSIVE Walk(_, _, _, _, _, _)
Walk(h, x, i, r, score, obj) ==
  IF i \notin DOMAIN h[x].level
  THEN [x |-> x, rank |-> r, panic |-> TRUE]
  ELSE LET f == h[x].level[i].forward
       IN IF f = None THEN [x |-> x, rank |-> r, panic |-> FALSE]
          ELSE IF h[f].obj = NoObj THEN [x |-> x, rank |-> r, panic |-> TRUE]
          ELSE IF KeyGe(h[f].score, h[f].obj[1], score, obj)
               THEN [x |-> x, rank |-> r, panic |-> FALSE]
          ELSE Walk(h, f, i, r + h[x].level[i].span, score, obj)

\* The outer loop, for i from lvl - 1 down to 0.
RECURSIVE Descend(_, _, _, _, _, _, _, _)
Descend(h, lvl, i, x, update, rank, score, obj) ==
  LET r0 == IF i = lvl - 1 THEN 0 ELSE rank[i + 1]
      w == Walk(h, x, i, r0, score, obj)
      u2 == [update EXCEPT ![i] = w.x]
      r2 == [rank EXCEPT ![i] = w.rank]
  IN IF w.panic \/ i = 0
     THEN [update |-> u2, rank |-> r2, panic |-> w.panic]
     ELSE Descend(h, lvl, i - 1, w.x, u2, r2, score, obj)

Search(h, lvl, score, obj) ==
  Descend(h, lvl, lvl - 1, header,
          [i \in 0..(SKIP_LIST_MAX_LEVEL - 1) |-> None],
          [i \in 0..(SKIP_LIST_MAX_LEVEL - 1) |-> 0], score, obj)

\* The span given to the header at a level the list did not use yet.
RaisedSpan_zero(len) == 0
RaisedSpan(len) == len

\* if level > self.level { ... }: the arrays and the header's spans for the
\* levels from..to-1.
Raise(h, update, rank, from, to, len) ==
  [heap |-> [h EXCEPT ![header].level =
               [i \in DOMAIN @ |->
                  IF i \in from..(to - 1)
                  THEN [@[i] EXCEPT !.span = RaisedSpan(len)] ELSE @[i]]],
   update |-> [i \in DOMAIN update |->
                 IF i \in from..(to - 1) THEN header ELSE update[i]],
   rank |-> [i \in DOMAIN rank |-> IF i \in from..(to - 1) THEN 0 ELSE rank[i]]]

\* The two spans written by the splice loop.
NewSpan_zero(prev_span, d) == 0
NewSpan(prev_span, d) == prev_span - d
PrevSpan_short(d) == d
PrevSpan(d) == d + 1

\* for i in 0..level: splice the new node after update[i].
RECURSIVE Splice(_, _, _, _, _, _)
Splice(h, i, lvl, update, rank, new) ==
  IF i = lvl THEN [heap |-> h, panic |-> FALSE]
  ELSE LET prev == update[i]
       IN IF prev = None \/ rank[0] < rank[i] THEN [heap |-> h, panic |-> TRUE]
          ELSE IF i \notin DOMAIN h[prev].level THEN [heap |-> h, panic |-> TRUE]
          ELSE LET d == rank[0] - rank[i]
                   h1 == [h EXCEPT ![new].level[i].forward = h[prev].level[i].forward]
                   h2 == [h1 EXCEPT ![prev].level[i].forward = new]
               IN IF h2[prev].level[i].span < d THEN [heap |-> h2, panic |-> TRUE]
                  ELSE LET h3 == [h2 EXCEPT ![new].level[i].span =
                                               NewSpan(h2[prev].level[i].span, d)]
                           h4 == [h3 EXCEPT ![prev].level[i].span = PrevSpan(d)]
                       IN Splice(h4, i + 1, lvl, update, rank, new)

\* for i in level..self.level: the levels above the new node.  The loop
\* panics on an update[i] that is None or has no level i.
BumpPanics(h, update, from, to) ==
  \E i \in from..(to - 1) :
    update[i] = None \/ i \notin DOMAIN h[update[i]].level

Bump_none(h, update, from, to) == h

Bump(h, update, from, to) ==
  [n \in DOMAIN h |->
     [h[n] EXCEPT !.level =
        [i \in DOMAIN @ |->
           IF i \in from..(to - 1) /\ update[i] = n
           THEN [@[i] EXCEPT !.span = @ + 1] ELSE @[i]]]]

\* The new node's backward link.
Backward_always(update0) == update0
Backward(update0) == IF update0 = header THEN None ELSE update0

\* self.tail after the insert: e is the new node's level-0 successor.
NewTail_always(old, e, new) == new
NewTail(old, e, new) == IF e # None THEN old ELSE new

\* self.level after the insert of a node of lvl levels.
NewLevel_last(lvl, cur) == lvl
NewLevel_keep(lvl, cur) == cur
NewLevel(lvl, cur) == IF lvl > cur THEN lvl ELSE cur

\* The whole of insert on the list s, with the stream of random draws.
Insert(s, score, obj, draws) ==
  LET new == Cardinality(DOMAIN s.heap)
      d == Search(s.heap, s.level, score, obj)
      lvl == random_level(draws)
      top == NewLevel(lvl, s.level)
      r == IF lvl > s.level
           THEN Raise(s.heap, d.update, d.rank, s.level, lvl, s.length)
           ELSE [heap |-> s.heap, update |-> d.update, rank |-> d.rank]
      h0 == [n \in DOMAIN r.heap \cup {new} |->
               IF n = new THEN SkipListNode_new(lvl, score, Some(obj))
               ELSE r.heap[n]]
      sp == Splice(h0, 0, lvl, r.update, r.rank, new)
      h5 == Bump(sp.heap, r.update, lvl, top)
      h6 == [h5 EXCEPT ![new].backward = Backward(r.update[0])]
      e == h6[new].level[0].forward
      h7 == IF e # None THEN [h6 EXCEPT ![e].backward = new] ELSE h6
  IN IF d.panic \/ lvl > SKIP_LIST_MAX_LEVEL
     THEN [heap |-> s.heap, tail |-> s.tail, length |-> s.length,
           level |-> s.level, panic |-> TRUE]
     ELSE IF sp.panic \/ BumpPanics(sp.heap, r.update, lvl, top)
     THEN [heap |-> sp.heap, tail |-> s.tail, length |-> s.length,
           level |-> top, panic |-> TRUE]
     ELSE [heap |-> h7, tail |-> NewTail(s.tail, e, new),
           length |-> s.length + 1, level |-> top, panic |-> FALSE]

\* ------------------------------------------------------- the state machine
List == [heap |-> heap, tail |-> tail, length |-> length, level |-> level]

InitList ==
  /\ heap = New.heap
  /\ tail = New.tail
  /\ length = New.length
  /\ level = New.level
  /\ panicked = FALSE

Init ==
  /\ InitList
  /\ rlDraws = << >>
  /\ rlLevel = None
  /\ rlPc = "idle"

DoInsert ==
  /\ ~panicked
  /\ length < MaxLen
  /\ \E score \in Scores, obj \in Values, draws \in InsertDraws :
     \E t \in {Insert(List, score, obj, draws)} :
       /\ heap' = t.heap
       /\ tail' = t.tail
       /\ length' = t.length
       /\ level' = t.level
       /\ panicked' = t.panic
  /\ UNCHANGED rlVars

Next == DoInsert

Spec == Init /\ [][Next]_vars

\* random_level called on its own, as the test generate_rand_level does.
InitRL ==
  /\ InitList
  /\ rlDraws \in RLDraws
  /\ rlLevel = None
  /\ rlPc = "call"

CallRandomLevel ==
  /\ rlPc = "call"
  /\ rlLevel' = random_level(rlDraws)
  /\ rlPc' = "done"
  /\ UNCHANGED <<rlDraws, listVars>>

NextDraws ==
  /\ rlPc = "done"
  /\ rlDraws' \in RLDraws
  /\ rlLevel' = None
  /\ rlPc' = "call"
  /\ UNCHANGED listVars

NextRL == CallRandomLevel \/ NextDraws

SpecRL == InitRL /\ [][NextRL]_vars

\* ------------------------------------------------------ reading the list
\* The stored nodes: every cell but the header.
Nodes == DOMAIN heap \ {header}

Forward(n, i) == heap[n].level[i].forward
Span(n, i) == heap[n].level[i].span
Height(n) == Cardinality(DOMAIN heap[n].level)

\* The nodes met by following the level-i links from n, at most fuel of them.
RECURSIVE ChainFrom(_, _, _)
ChainFrom(n, i, fuel) ==
  IF fuel = 0 \/ i \notin DOMAIN heap[n].level \/ Forward(n, i) = None THEN << >>
  ELSE << Forward(n, i) >> \o ChainFrom(Forward(n, i), i, fuel - 1)

\* The level-i chain from the header; a chain longer than the number of
\* stored nodes shows a cycle.
Chain(i) == ChainFrom(header, i, Cardinality(Nodes) + 1)

Range(c) == { c[k] : k \in 1..Len(c) }
NoRepeat(c) == \A j, k \in 1..Len(c) : c[j] = c[k] => j = k

\* The 1-based rank of a node: its place on the level-0 chain (0: the header).
Rank(n) ==
  IF n = header THEN 0
  ELSE LET c == Chain(0) IN CHOOSE k \in 1..Len(c) : c[k] = n

Score(n) == heap[n].score
Value(n) == heap[n].obj[1]

\* All stored nodes are on the level-0 chain, each once.
AllOnce(c) == Len(c) = Cardinality(Nodes) /\ Range(c) = Nodes /\ NoRepeat(c)

\* ------------------------------------------------------------- the claims

\* C1: after any inserts, the level-0 chain from the header visits every
\* inserted node exactly once, in non-decreasing score order and, among equal
\* scores, in non-decreasing value order.
C1_OrderedTraversal ==
  LET c == Chain(0)
  IN /\ AllOnce(c)
     /\ \A k \in 1..(Len(c) - 1) :
          /\ FLe(Score(c[k]), Score(c[k + 1]))
          /\ FEq(Score(c[k]), Score(c[k + 1]))
               => StrLe(Value(c[k]), Value(c[k + 1]))

\* The order of C1 when no stored score is NaN.
OrderedUnlessNaN ==
  (\A n \in Nodes : ~IsNaN(Score(n))) => C1_OrderedTraversal

\* C2: for every level i below the list height and every cell n with a
\* forward link at level i, n's span at level i is the number of level-0
\* steps from n to the link's target, at least 1; and the spans along any
\* level's chain from the header to a node add up to that node's rank.
RECURSIVE SpanSum(_, _, _)
SpanSum(c, i, k) ==
  IF k = 0 THEN 0
  ELSE SpanSum(c, i, k - 1) + Span(IF k = 1 THEN header ELSE c[k - 1], i)

C2_SpanIsDistance ==
  /\ AllOnce(Chain(0))
  /\ \A n \in DOMAIN heap : \A i \in DOMAIN heap[n].level :
       (i < level /\ Forward(n, i) # None)
         => /\ Span(n, i) = Rank(Forward(n, i)) - Rank(n)
            /\ Span(n, i) >= 1
  /\ \A i \in 0..(level - 1) :
       LET c == Chain(i)
       IN \A k \in 1..Len(c) : SpanSum(c, i, k) = Rank(c[k])

C2_Witness ==
  /\ length = MaxLen
  /\ ~panicked
  /\ \E n \in Nodes : \E i \in DOMAIN heap[n].level :
       i >= 1 /\ Forward(n, i) # None /\ Span(n, i) >= 2
  /\ \E i \in 1..(level - 1) : Forward(header, i) # None /\ Span(header, i) >= 2

\* C3: backward links are the inverse of the level-0 forward links: the
\* level-0 successor of a stored node points back at it, the first node has
\* no backward link, and no backward link targets the header.
C3_BackwardInverse ==
  /\ \A n \in Nodes :
       Forward(n, 0) # None => heap[Forward(n, 0)].backward = n
  /\ Forward(header, 0) # None => heap[Forward(header, 0)].backward = None
  /\ \A n \in DOMAIN heap : heap[n].backward # header
  /\ \A n \in Nodes :
       heap[n].backward # None => Forward(heap[n].backward, 0) = n

C3_Witness ==
  /\ length = MaxLen
  /\ ~panicked
  /\ \E n \in Nodes :
       /\ heap[n].backward # None
       /\ Forward(n, 0) # None
       /\ n > heap[n].backward
       /\ n > Forward(n, 0)
  /\ Forward(header, 0) # 1

\* C4: tail is none exactly when length is 0, and otherwise it is the one
\* stored node without a level-0 forward link.
C4_Tail ==
  /\ (tail = None) <=> (length = 0)
  /\ length # 0 =>
       /\ tail \in Nodes
       /\ \A n \in Nodes : (Forward(n, 0) = None) <=> (n = tail)
       /\ LET c == Chain(0) IN Len(c) > 0 /\ c[Len(c)] = tail

C4_Witness ==
  /\ length = MaxLen
  /\ ~panicked
  /\ tail # None
  /\ tail # length
  /\ tail # 1

\* C5: insert never panics and adds exactly 1 to length, whatever the list
\* and the pair, a pair already stored included; length is the number of
\* nodes on the level-0 chain.
C5_InsertSucceeds ==
  /\ [](~panicked /\ length = Len(Chain(0)) /\ length = Cardinality(Nodes))
  /\ [][length' = length + 1]_vars

C5_Witness ==
  /\ ~panicked
  /\ length = MaxLen
  /\ \E n, m \in Nodes :
       n # m /\ Score(n) = Score(m) /\ ~IsNaN(Score(n)) /\ Value(n) = Value(m)

\* C6: after every operation the level-0 chain visits all nodes in strictly
\* increasing (score, value) order, and no two nodes hold the same pair.
C6_StrictOrder ==
  LET c == Chain(0)
  IN /\ AllOnce(c)
     /\ \A k \in 1..(Len(c) - 1) :
          \/ FGt(Score(c[k + 1]), Score(c[k]))
          \/ /\ FEq(Score(c[k]), Score(c[k + 1]))
             /\ StrLe(Value(c[k]), Value(c[k + 1]))
             /\ Value(c[k]) # Value(c[k + 1])
     /\ \A n, m \in Nodes :
          (n # m) => ~(heap[n].score = heap[m].score /\ Value(n) = Value(m))

\* C7: the list's height is at least 1 and at most SKIP_LIST_MAX_LEVEL, and
\* no stored node has more levels than the list's height.
C7_Height ==
  /\ level >= 1
  /\ level <= SKIP_LIST_MAX_LEVEL
  /\ \A n \in Nodes : Height(n) <= level

C7_Witness ==
  /\ ~panicked
  /\ length = MaxLen
  /\ level = SKIP_LIST_MAX_LEVEL
  /\ \E n \in Nodes : Height(n) = SKIP_LIST_MAX_LEVEL
  /\ \E n \in Nodes : Height(n) = 1

\* C8: new() gives a list of length 0, height 1, no tail, and a header of
\* exactly SKIP_LIST_MAX_LEVEL level entries, each without forward link and
\* with span 0, without value and without backward link.
C8_New ==
  length = 0 =>
    /\ level = 1
    /\ tail = None
    /\ DOMAIN heap = {header}
    /\ Height(header) = SKIP_LIST_MAX_LEVEL
    /\ DOMAIN heap[header].level = 0..(SKIP_LIST_MAX_LEVEL - 1)
    /\ \A i \in DOMAIN heap[header].level :
         Forward(header, i) = None /\ Span(header, i) = 0
    /\ heap[header].obj = NoObj
    /\ heap[header].backward = None

C8_Witness == length = 0 /\ Nodes = {} /\ ~panicked

\* C9: random_level returns a height in 1..SKIP_LIST_MAX_LEVEL: 1 plus the
\* number of successful draws before the first failure, capped at
\* SKIP_LIST_MAX_LEVEL.
Successes(draws) ==
  CHOOSE k \in 0..(Len(draws) - 1) :
    /\ Mask16(draws[k + 1]) > 16383
    /\ \A j \in 1..k : Mask16(draws[j]) <= 16383

C9_RandomLevel ==
  rlPc = "done" =>
    /\ rlLevel \in 1..SKIP_LIST_MAX_LEVEL
    /\ rlLevel = IF 1 + Successes(rlDraws) <= SKIP_LIST_MAX_LEVEL
                 THEN 1 + Successes(rlDraws) ELSE SKIP_LIST_MAX_LEVEL

C9_Witness ==
  /\ rlPc = "done"
  /\ Successes(rlDraws) > SKIP_LIST_MAX_LEVEL
  /\ rlLevel = SKIP_LIST_MAX_LEVEL

\* ------------------------------------------------------------------ delete
\* The source has no delete; this is the Delete(score, value) of the
\* specification, section 4.4, on the same cells.

\* The (score, value) pairs of a list in level-0 order.
RECURSIVE PairsFrom(_, _, _)
PairsFrom(h, n, fuel) ==
  LET f == h[n].level[0].forward
  IN IF fuel = 0 \/ f = None THEN << >>
     ELSE << <<h[f].score, h[f].obj[1]>> >> \o PairsFrom(h, f, fuel - 1)

ContentsOf(s) == PairsFrom(s.heap, header, Cardinality(DOMAIN s.heap))

\* The target matches the level-0 successor x of update[0].
Matches(h, x, score, obj) ==
  x # None /\ FEq(h[x].score, score) /\ h[x].obj[1] = obj

\* Every level below the list height: splice x out where update[i] links to
\* it, and take one position off update[i]'s span elsewhere.
Unlink(h, x, update, lvl) ==
  [n \in DOMAIN h |->
     [h[n] EXCEPT !.level =
        [i \in DOMAIN @ |->
           IF i < lvl /\ update[i] = n
           THEN IF @[i].forward = x
                THEN [forward |-> h[x].level[i].forward,
                      span |-> @[i].span + h[x].level[i].span - 1]
                ELSE [@[i] EXCEPT !.span = @ - 1]
           ELSE @[i]]]]

\* The height after the removal: the top levels the header no longer uses
\* are dropped, never below 1.
RECURSIVE Shrink(_, _)
Shrink(h, lvl) ==
  IF lvl > 1 /\ h[header].level[lvl - 1].forward = None
  THEN Shrink(h, lvl - 1) ELSE lvl

Delete(s, score, obj) ==
  LET d == Search(s.heap, s.level, score, obj)
      x == s.heap[d.update[0]].level[0].forward
      h1 == Unlink(s.heap, x, d.update, s.level)
      nxt == s.heap[x].level[0].forward
      h2 == IF nxt # None
            THEN [h1 EXCEPT ![nxt].backward = s.heap[x].backward] ELSE h1
      h3 == [n \in DOMAIN h2 \ {x} |-> h2[n]]
  IN IF d.panic \/ ~Matches(s.heap, x, score, obj)
     THEN [heap |-> s.heap, tail |-> s.tail, length |-> s.length,
           level |-> s.level, found |-> FALSE]
     ELSE [heap |-> h3,
           tail |-> IF s.tail = x THEN s.heap[x].backward ELSE s.tail,
           length |-> s.length - 1, level |-> Shrink(h3, s.level),
           found |-> TRUE]

\* The pair is stored in some node.
Present(score, obj) ==
  \E n \in Nodes : heap[n].score = score /\ Value(n) = obj

\* Insert of the pair and then Delete of it give back the length and the
\* ordered contents.
RoundTrip(score, obj, draws) ==
  \A a \in {Insert(List, score, obj, draws)} :
    \A b \in {Delete(a, score, obj)} :
      b.found /\ b.length = length /\ ContentsOf(b) = ContentsOf(List)

\* C11: from any list, inserting a pair (s, v) that is not stored and then
\* deleting (s, v) gives back the same length and ordered contents.
C11_RoundTrip ==
  \A score \in Scores, obj \in Values, draws \in InsertDraws :
    ~Present(score, obj) => RoundTrip(score, obj, draws)

\* The round trip of C11 for the scores that are not NaN, from the lists
\* that have room for one more node.
RoundTripUnlessNaN ==
  length < MaxLen =>
    \A score \in Scores \ {NaN}, obj \in Values, draws \in InsertDraws :
      ~Present(score, obj) => RoundTrip(score, obj, draws)

\* The key of node n is strictly less than (score, obj).
FLt(a, b) == FGt(b, a)
StrLt(a, b) == ~StrGe(a, b)
KeyLt(n, score, obj) ==
  FLt(Score(n), score) \/ (FEq(Score(n), score) /\ StrLt(Value(n), obj))

\* The last node on the level-i chain with a key strictly less than
\* (score, obj); the header when there is none.
LastLess(i, score, obj) ==
  LET c == Chain(i)
      ks == { k \in 1..Len(c) : KeyLt(c[k], score, obj) }
  IN IF ks = {} THEN header
     ELSE c[CHOOSE k \in ks : \A j \in ks : j <= k]

DescentEnds(score, obj) ==
  \A d \in {Search(heap, level, score, obj)} :
    /\ ~d.panic
    /\ \A i \in 0..(level - 1) :
         /\ d.update[i] = LastLess(i, score, obj)
         /\ d.rank[i] = Rank(d.update[i])
         /\ d.rank[i] <= d.rank[0]

\* C12: at the end of insert's descent, for every level i below the list
\* height, update[i] is the last node on the level-i chain with a key
\* strictly less than the inserted key (the header if none), and rank[i] is
\* the rank of update[i], so rank[i] <= rank[0].
C12_Descent ==
  \A score \in Scores, obj \in Values : DescentEnds(score, obj)

\* The descent of C12 when neither the key nor any stored score is NaN.
DescentUnlessNaN ==
  (\A n \in Nodes : ~IsNaN(Score(n))) =>
    \A score \in Scores \ {NaN}, obj \in Values : DescentEnds(score, obj)

\* The ranks of C12 alone, for every key and every list.
DescentRanks ==
  \A score \in Scores, obj \in Values :
    \A d \in {Search(heap, level, score, obj)} :
      \A i \in 0..(level - 1) :
        d.rank[i] = Rank(d.update[i]) /\ d.rank[i] <= d.rank[0]

\* ------------------------------------------------- one insert, before/after
\* In a step that inserts, the new node is the cell numbered length'.  These
\* read the step: the new node's height and what the descent and the raise
\* computed from the list before the step.
NewHeight == Cardinality(DOMAIN heap'[length'].level)

SearchOfStep ==
  Search(heap, level, heap'[length'].score, heap'[length'].obj[1])

RaiseOfStep(d) ==
  IF NewHeight > level
  THEN Raise(heap, d.update, d.rank, level, NewHeight, length)
  ELSE [heap |-> heap, update |-> d.update, rank |-> d.rank]

\* C13: for every level i at or above the new node's height and below the
\* list height, insert adds exactly 1 to the span of update[i] at level i,
\* changes no forward link at level i, and the new node is not on the
\* level-i chain.
C13_UpperLevels ==
  [][\A d \in {SearchOfStep} :
       \A i \in NewHeight..(level' - 1) :
         /\ d.update[i] \in DOMAIN heap
         /\ heap'[d.update[i]].level[i].span = heap[d.update[i]].level[i].span + 1
         /\ \A n \in DOMAIN heap :
              i \in DOMAIN heap[n].level =>
                heap'[n].level[i].forward = heap[n].level[i].forward
         /\ length' \notin Range(Chain(i)')]_vars

\* The newest node is lower than the list and a link above its height
\* passes over it.
C13_Witness ==
  /\ ~panicked
  /\ length = MaxLen
  /\ Height(length) < level
  /\ \E i \in Height(length)..(level - 1) : \E n \in DOMAIN heap :
       /\ i \in DOMAIN heap[n].level
       /\ Forward(n, i) # None
       /\ Rank(n) < Rank(length)
       /\ Rank(length) < Rank(Forward(n, i))
  /\ \E i \in Height(length)..(level - 1) : \E n \in Nodes :
       /\ i \in DOMAIN heap[n].level
       /\ Forward(n, i) = None
       /\ Rank(n) < Rank(length)

\* --------------------------------------------------------------- ownership
\* Every link field is an Option<Rc<RefCell<SkipListNode>>>, and insert fills
\* each with Rc::clone: each field that holds n is one strong reference to n.
ForwardRefs(n) ==
  Cardinality({ <<m, i>> \in (DOMAIN heap) \X (0..(SKIP_LIST_MAX_LEVEL - 1)) :
                  i \in DOMAIN heap[m].level /\ Forward(m, i) = n })
BackwardRefs(n) == Cardinality({ m \in DOMAIN heap : heap[m].backward = n })
TailRefs(n) == IF tail = n THEN 1 ELSE 0

\* Rc::strong_count of a stored node between two operations.
strong_count(n) == ForwardRefs(n) + BackwardRefs(n) + TailRefs(n)

\* m holds a strong reference to n.
Owns(m, n) ==
  \/ heap[m].backward = n
  \/ \E i \in DOMAIN heap[m].level : Forward(m, i) = n

\* C14: backward is non-owning: the strong references to a stored node are
\* the forward links that target it, plus one if it is the tail, and the
\* links form no ownership cycle.
C14_BackwardNonOwning ==
  /\ \A n \in Nodes : strong_count(n) = ForwardRefs(n) + TailRefs(n)
  /\ \A n, m \in DOMAIN heap : ~(Owns(n, m) /\ Owns(m, n))

\* ------------------------------------------------------ order of insertion
\* The stored pairs inserted again into a new list in the order perm, every
\* node with the height that draws gives.
RECURSIVE Replay(_, _, _, _)
Replay(s, perm, k, draws) ==
  IF k > Len(perm) THEN s
  ELSE Replay(Insert(s, Score(perm[k]), Value(perm[k]), draws), perm, k + 1, draws)

Perms(S) ==
  { p \in [1..Cardinality(S) -> S] : \A j, k \in DOMAIN p : p[j] = p[k] => j = k }

PairsDistinct ==
  \A n, m \in Nodes :
    n # m => ~(heap[n].score = heap[m].score /\ Value(n) = Value(m))

\* C15: for pairwise distinct pairs, the ordered contents, the length and
\* so every rank are the same for every insertion order and every choice of
\* heights.
C15_OrderIndependent ==
  PairsDistinct =>
    \A perm \in Perms(Nodes), draws \in InsertDraws :
      \A t \in {Replay(New, perm, 1, draws)} :
        t.length = length /\ ContentsOf(t) = ContentsOf(List)

\* What C15 rests on when no stored score is NaN: the rank of a node is 1
\* plus the number of stored pairs with a smaller key, whatever the order of
\* insertion and the heights were.
OrderIndependentUnlessNaN ==
  (PairsDistinct /\ \A n \in Nodes : ~IsNaN(Score(n))) =>
    /\ length = Cardinality(Nodes)
    /\ \A n \in Nodes :
         Rank(n) = 1 + Cardinality({ m \in Nodes : KeyLt(m, Score(n), Value(n)) })

\* ---------------------------------------------------------- equal pairs
\* Node n of the list before the step holds a pair equal to (score, obj).
Same(n, score, obj) == FEq(Score(n), score) /\ Value(n) = obj

\* The first node on the level-i chain with a pair equal to (score, obj);
\* None when the chain has none.
FirstSame(i, score, obj) ==
  LET c == Chain(i)
      ks == { k \in 1..Len(c) : Same(c[k], score, obj) }
  IN IF ks = {} THEN None
     ELSE c[CHOOSE k \in ks : \A j \in ks : k <= j]

\* C16: an insert of a pair equal to a stored one is not detected: every old
\* node is kept, and at every level the new node has, it is linked
\* immediately before the first old node with that pair on that level's
\* chain.
C16_Duplicate ==
  [][(\E n \in Nodes : Same(n, heap'[length'].score, heap'[length'].obj[1]))
       => /\ length' = length + 1
          /\ \A n \in Nodes :
               /\ n \in Range(Chain(0)')
               /\ heap'[n].score = heap[n].score
               /\ heap'[n].obj = heap[n].obj
          /\ heap'[length'].level[0].forward
               = FirstSame(0, heap'[length'].score, heap'[length'].obj[1])
          /\ \A i \in 0..(NewHeight - 1) :
               \A f \in {FirstSame(i, heap'[length'].score, heap'[length'].obj[1])} :
                 f # None => heap'[length'].level[i].forward = f]_vars

\* The placement of C16 for the lists in which no stored score is NaN.
DuplicateUnlessNaN ==
  [][(\A n \in Nodes : ~IsNaN(Score(n)))
       => \A i \in 0..(NewHeight - 1) :
            \A f \in {FirstSame(i, heap'[length'].score, heap'[length'].obj[1])} :
              f # None => heap'[length'].level[i].forward = f]_vars

\* ------------------------------------------------ the splice subtraction
\* What the splice loop reads on the current list: the arrays after the
\* descent d and the raise for a new node of lvl levels.
BeforeSplice(d, lvl) ==
  IF lvl > level
  THEN Raise(heap, d.update, d.rank, level, lvl, length)
  ELSE [heap |-> heap, update |-> d.update, rank |-> d.rank]

\* C17: in every reachable list, for every key and every generated height,
\* at every level i below the new node's height rank[0] >= rank[i] and the
\* span of update[i] at level i is at least rank[0] - rank[i], so neither
\* subtraction of the splice loop underflows.
C17_NoUnderflow ==
  /\ ~panicked
  /\ \A score \in Scores, obj \in Values :
       \A d \in {Search(heap, level, score, obj)} :
         \A lvl \in { random_level(draws) : draws \in InsertDraws } :
           \A r \in {BeforeSplice(d, lvl)} :
             \A i \in 0..(lvl - 1) :
               /\ r.update[i] \in DOMAIN r.heap
               /\ i \in DOMAIN r.heap[r.update[i]].level
               /\ r.rank[0] >= r.rank[i]
               /\ r.heap[r.update[i]].level[i].span >= r.rank[0] - r.rank[i]

\* A full list and a key whose descent leaves a level above 0 before level 0
\* does: rank[0] - rank[i] is positive at a level the new node has.
C17_Witness ==
  /\ ~panicked
  /\ length = MaxLen
  /\ \E score \in Scores, obj \in Values :
       \E d \in {Search(heap, level, score, obj)} :
         \E draws \in InsertDraws :
           \E i \in 1..(random_level(draws) - 1) :
             /\ i < level
             /\ d.rank[i] > 0
             /\ d.rank[0] > d.rank[i]

\* ------------------------------------------------------- the last links
\* C18: at every level i below the list height, a node (the header
\* included) with a level-i entry and no forward link at level i has as its
\* level-i span the number of stored nodes after it in level-0 order: 0 for
\* the tail, length for the header of an empty level.
C18_LastSpan ==
  \A i \in 0..(level - 1) : \A n \in DOMAIN heap :
    (i \in DOMAIN heap[n].level /\ Forward(n, i) = None)
      => /\ n = header \/ n \in Range(Chain(0))
         /\ Span(n, i) = length - Rank(n)
         /\ n = tail => Span(n, i) = 0
         /\ n = header => Span(n, i) = length

\* A full list with a node that ends a level above 0 and is not the tail, and
\* a tail that ends at least two levels.
C18_Witness ==
  /\ ~panicked
  /\ length = MaxLen
  /\ \E n \in Nodes : \E i \in 1..(level - 1) :
       /\ i \in DOMAIN heap[n].level
       /\ Forward(n, i) = None
       /\ n # tail
       /\ Span(n, i) > 0
  /\ Height(tail) > 1

\* ---------------------------------------------------------- the height
\* The greatest height of a stored node, 1 for the empty list.
MaxHeight ==
  IF Nodes = {} THEN 1
  ELSE CHOOSE h \in { Height(n) : n \in Nodes } : \A n \in Nodes : Height(n) <= h

\* The height is tight in the current list.
Tight ==
  /\ level = MaxHeight
  /\ \A i \in 1..(level - 1) : Forward(header, i) # None

\* What one insert does to the height.
HeightStep ==
  /\ level' >= level
  /\ (NewHeight <= level) => (level' = level)
  /\ (NewHeight > level) => (level' = NewHeight)

\* C19: the list height equals the greatest height of a stored node (1 when
\* the list is empty), so the header has a forward link at every level from 1
\* to height - 1; an insert never lowers it, and one whose generated height
\* does not exceed it leaves it unchanged.
C19_TightHeight == []Tight /\ [][HeightStep]_vars

\* A full list higher than 1 whose newest node is lower than the list, next
\* to a node as high as the list.
C19_Witness ==
  /\ ~panicked
  /\ length = MaxLen
  /\ level > 1
  /\ Height(length) < level
  /\ \E n \in Nodes : n # length /\ Height(n) = level

====
